---- MODULE Spec2Model ----
(***************************************************************************)
(* State-machine model of the OpenAL sound backend (src/sound_openal.c):   *)
(* the source pool, the voices that borrow sources from it, the groups     *)
(* that reserve sources, and the part of the OpenAL device the code reads. *)
(* C arrays are functions over 0..n-1, so indices are those of the code.   *)
(***************************************************************************)
EXTENDS Integers, Sequences, FiniteSets, TLC

\* ------------------------------------------------------------------ bounds

\* Ceiling of the pool; 256 in the source (line 53), scaled down here.
SOUND_MAX_SOURCES == 3
\* Ceiling of the pool where voices and groups are run together.
MixSources == 2
\* Number of voice structures the caller has at hand.
MaxVoices == 2
\* Cap on al_groupidgen, i.e. on the number of createGroup calls.
MaxGroupIds == 2
\* Largest size passed to createGroup.
MaxGroupSize == 2
\* Number of loaded sound buffers.
NumBuffers == 2
\* Threads calling into the backend.
NumThreads == 2
\* Largest coordinate handed to updatePos.
MaxCoord == 1
\* Last clock value, and the clock's step, in milliseconds.
MaxTicks == 100
TickStep == 100
\* The clock's step where fades are followed.
FadeStep == 50
\* Largest global volume set.
MaxVolume == 1
\* Largest channel count and largest sample size, in bytes, of a header.
MaxChannels == 3
MaxSampleBytes == 4
\* Largest payload of a container, in bytes, and bytes added to its
\* format chunk.
MaxData == 1
MaxExtra == 2
\* Buffers the device holds at a time.
MaxResident == 1

\* --------------------------------------------------------------- constants

SOUND_FADEOUT == 100

AL_NONE == 0

AL_INITIAL == "AL_INITIAL"
AL_PLAYING == "AL_PLAYING"
AL_PAUSED  == "AL_PAUSED"
AL_STOPPED == "AL_STOPPED"

VOICE_STOPPED == "VOICE_STOPPED"
VOICE_PLAYING == "VOICE_PLAYING"
VOICE_FADEOUT == "VOICE_FADEOUT"
VOICE_DESTROY == "VOICE_DESTROY"

Sources  == 1..SOUND_MAX_SOURCES
VoiceIds == 1..MaxVoices
Buffers  == 1..NumBuffers
GroupIds == 1..MaxGroupIds
Threads  == 1..NumThreads
\* States a voice structure can carry when the caller hands it to play.
VoiceStates == {VOICE_STOPPED, VOICE_PLAYING}

VARIABLES
    source_stack,    \* free source pool, array of source_mstack handles
    source_total,    \* general use sources, array
    source_nstack,   \* number of free sources in the pool
    source_ntotal,   \* number of general use sources
    source_mstack,   \* memory allocated for the pool
    svolume,         \* global volume
    al_groups,       \* created groups, array of al_ngroups groups
    al_groupidgen,   \* group id generator
    voices,          \* the caller's voice structures, by slot
    al,              \* the device: per source its state, buffer, looping, gain
    ticks,           \* SDL_GetTicks()
    sound_lock,      \* global sound lock: 0 when free, else the holding thread
    thr,             \* per thread: where it stands in the call it is running
    sound_mutex,     \* the mutex behind sound_lock: "NULL", "created", "destroyed"
    al_device,       \* OpenAL device pointer: 0 (NULL) or 1
    al_context,      \* OpenAL context pointer: 0 (NULL) or 1
    alc,             \* the library: is a device open, a context alive, current
    albuffers,       \* the device's buffers: handle -> format, size, rate
    snd_buf,         \* snd->u.al.buf of the sound being loaded, 0 before
    proc,            \* the process: "running", "crashed" or "hung"
    op               \* the last operation, its argument and what it returned

\* The mutex, the device and the context, in the program and in the library.
alcVars == <<sound_mutex, al_device, al_context, alc>>

\* The buffer store.
wavVars == <<albuffers, snd_buf, proc>>

\* What the calls on voices and groups leave alone.
hostVars == <<alcVars, wavVars>>

vars == <<source_stack, source_total, source_nstack, source_ntotal,
          source_mstack, svolume, hostVars, al_groups, al_groupidgen, voices,
          al, ticks, sound_lock, thr, op>>

poolVars == <<source_stack, source_total, source_nstack, source_ntotal,
              source_mstack>>

\* A call that runs from its first line to its return with no other thread
\* in between takes and releases the lock inside its one step.
mtVars == <<sound_lock, thr>>

al_ngroups == Cardinality(DOMAIN al_groups)

\* What an operation leaves behind for the properties: its name, its main
\* argument, its return value and a note on the case it met.
OpRec(name, arg, ret, flag) ==
    [name |-> name, arg |-> arg, ret |-> ret, flag |-> flag]

\* ------------------------------------------------------------ the device

\* alSourceRewind in the place of alSourceStop: any source goes back to
\* its initial state.
AlSourceStop_Rewind(s) == [s EXCEPT !.state = AL_INITIAL]

\* alSourceStop: a playing or paused source stops, otherwise a legal no-op.
AlSourceStop(s) ==
    IF s.state \in {AL_PLAYING, AL_PAUSED} THEN [s EXCEPT !.state = AL_STOPPED]
    ELSE s

\* alSourcei(AL_BUFFER): only an initial or stopped source takes a buffer,
\* on any other the call is an AL_INVALID_OPERATION and changes nothing.
AlSourceBuffer(s, b) ==
    IF s.state \in {AL_INITIAL, AL_STOPPED} THEN [s EXCEPT !.buffer = b]
    ELSE s

\* alSourcePlay: plays from the start; with no buffer it stops at once.
AlSourcePlay(s) ==
    IF s.buffer = AL_NONE THEN [s EXCEPT !.state = AL_STOPPED]
    ELSE [s EXCEPT !.state = AL_PLAYING]

AlSourceGain(s, g) == [s EXCEPT !.gain = g]

AlSourceLooping(s, l) == [s EXCEPT !.looping = l]

\* Gains are kept in units of 1/SOUND_FADEOUT, so that the fade is exact.
FullGain(vol) == vol * SOUND_FADEOUT

\* A thread that is in no call.
IdleThread == [pc |-> "idle", v |-> 0, snd |-> 0, n |-> 0]

\* ---------------------------------------------------------------- init

\* sound_al_init: the device grants p sources, at most maxp, all free, all
\* general use.
InitPool(maxp) ==
    \E p \in 0..maxp :
        /\ source_stack  = [i \in 0..(p-1) |-> i + 1]
        /\ source_total  = [i \in 0..(p-1) |-> i + 1]
        /\ source_nstack = p
        /\ source_ntotal = p
        /\ source_mstack = p
        /\ svolume = 1
        /\ al_groups = <<>>
        /\ al_groupidgen = 0
        /\ voices = <<>>
        /\ al = [s \in 1..p |->
                   [state |-> AL_INITIAL, buffer |-> AL_NONE,
                    looping |-> FALSE, gain |-> FullGain(1),
                    pos |-> <<0, 0>>, vel |-> <<0, 0>>]]
        /\ ticks = 0
        /\ sound_lock = 0
        /\ thr = [t \in Threads |-> IdleThread]
        /\ sound_mutex = "created"
        /\ al_device = 1
        /\ al_context = 1
        /\ alc = [device |-> TRUE, context |-> TRUE, current |-> TRUE]
        /\ albuffers = <<>>
        /\ snd_buf = 0
        /\ proc = "running"
        /\ op = OpRec("init", p, 0, FALSE)

Init == InitPool(MixSources)

InitFull == InitPool(SOUND_MAX_SOURCES)

\* ------------------------------------------------------------ the voices

\* A voice structure as the caller allocates it, carrying the state st.
NewVoice(st) ==
    [source |-> 0, buffer |-> AL_NONE, state |-> st,
     pos |-> <<0, 0>>, vel |-> <<0, 0>>]

SetVoice(v, rec) ==
    [x \in (DOMAIN voices) \cup {v} |-> IF x = v THEN rec ELSE voices[x]]

\* sound_al_getSource with the count taken down before the test for an
\* empty stack.
sound_al_getSource_DecFirst ==
    IF source_nstack <= 0
    THEN [source |-> 0, nstack |-> source_nstack - 1]
    ELSE [source |-> source_stack[source_nstack - 1],
          nstack |-> source_nstack - 1]

\* sound_al_getSource: the handle on top of the free stack, or 0, and the
\* free count it leaves.
sound_al_getSource ==
    IF source_nstack <= 0
    THEN [source |-> 0, nstack |-> source_nstack]
    ELSE [source |-> source_stack[source_nstack - 1],
          nstack |-> source_nstack - 1]

\* al_playVoice on the voice structure of slot v, which the caller has just
\* allocated with state st (a slot is reused once its voice holds no source).
al_playVoice(v, snd, px, py, vx, vy, st) ==
    /\ v \in VoiceIds
    /\ v \in DOMAIN voices => voices[v].source = 0
    /\ LET got == sound_al_getSource
           s   == got.source
       IN  IF s = 0
           THEN /\ source_nstack' = got.nstack
                /\ voices' = SetVoice(v, NewVoice(st))
                /\ op' = OpRec("play", v, -1, FALSE)
                /\ UNCHANGED al
           ELSE /\ source_nstack' = got.nstack
                /\ voices' = SetVoice(v, [NewVoice(st) EXCEPT
                                 !.source = s, !.buffer = snd,
                                 !.pos = <<px, py>>, !.vel = <<vx, vy>>])
                /\ al' = [al EXCEPT ![s] =
                            AlSourcePlay(
                              [AlSourceGain(AlSourceBuffer(al[s], snd),
                                            FullGain(svolume))
                                  EXCEPT !.pos = <<px, py>>,
                                         !.vel = <<vx, vy>>])]
                /\ op' = OpRec("play", v, 0, TRUE)
    /\ UNCHANGED <<source_stack, source_total, source_ntotal, source_mstack,
                   svolume, hostVars, al_groups, al_groupidgen, ticks,
                   mtVars>>

\* sound_al_updatePos that also writes the coordinates to the source.
sound_al_updatePos_Now(v, px, py, vx, vy) ==
    /\ v \in DOMAIN voices
    /\ voices' = [voices EXCEPT ![v].pos = <<px, py>>, ![v].vel = <<vx, vy>>]
    /\ al' = IF voices[v].source = 0 THEN al
             ELSE [al EXCEPT ![voices[v].source].pos = <<px, py>>,
                             ![voices[v].source].vel = <<vx, vy>>]
    /\ op' = OpRec("updatePos", v, 0, FALSE)
    /\ UNCHANGED <<poolVars, svolume, hostVars, al_groups, al_groupidgen,
                   ticks, mtVars>>

\* sound_al_updatePos: only the cached coordinates of the voice change.
sound_al_updatePos(v, px, py, vx, vy) ==
    /\ v \in DOMAIN voices
    /\ voices' = [voices EXCEPT ![v].pos = <<px, py>>, ![v].vel = <<vx, vy>>]
    /\ op' = OpRec("updatePos", v, 0, FALSE)
    /\ UNCHANGED <<poolVars, svolume, hostVars, al_groups, al_groupidgen, al,
                   ticks, mtVars>>

\* Lines 867-870 with the handle left in the voice.
ReleaseVoice_KeepHandle(vrec) == [vrec EXCEPT !.state = VOICE_STOPPED]

\* Lines 867-870: the voice lets go of its handle and is marked stopped.
ReleaseVoice(vrec) == [vrec EXCEPT !.source = 0, !.state = VOICE_STOPPED]

\* The sweep without lines 864-866: a stopped source is not put back.
sound_al_updateVoice_NoPush(v) ==
    /\ v \in DOMAIN voices
    /\ LET s == voices[v].source
       IN  IF s = 0
           THEN /\ voices' = [voices EXCEPT ![v].state = VOICE_DESTROY]
                /\ op' = OpRec("updateVoice", v, 0, FALSE)
                /\ UNCHANGED <<source_stack, source_nstack, al>>
           ELSE IF al[s].state = AL_STOPPED
           THEN /\ al' = [al EXCEPT ![s] = AlSourceBuffer(al[s], AL_NONE)]
                /\ UNCHANGED <<source_stack, source_nstack>>
                /\ voices' = [voices EXCEPT ![v] = ReleaseVoice(voices[v])]
                /\ op' = OpRec("updateVoice", v, 0, TRUE)
           ELSE /\ al' = [al EXCEPT ![s] =
                            [AlSourceGain(al[s], FullGain(svolume))
                                EXCEPT !.pos = voices[v].pos,
                                       !.vel = voices[v].vel]]
                /\ op' = OpRec("updateVoice", v, 0, FALSE)
                /\ UNCHANGED <<source_stack, source_nstack, voices>>
    /\ UNCHANGED <<source_total, source_ntotal, source_mstack, svolume,
                   hostVars, al_groups, al_groupidgen, ticks, mtVars>>

\* sound_al_updateVoice: the sweep of one voice.
sound_al_updateVoice(v) ==
    /\ v \in DOMAIN voices
    /\ LET s == voices[v].source
       IN  IF s = 0
           THEN /\ voices' = [voices EXCEPT ![v].state = VOICE_DESTROY]
                /\ op' = OpRec("updateVoice", v, 0, FALSE)
                /\ UNCHANGED <<source_stack, source_nstack, al>>
           ELSE IF al[s].state = AL_STOPPED
           THEN /\ al' = [al EXCEPT ![s] = AlSourceBuffer(al[s], AL_NONE)]
                /\ source_stack' =
                      [source_stack EXCEPT ![source_nstack] = s]
                /\ source_nstack' = source_nstack + 1
                /\ voices' = [voices EXCEPT ![v] = ReleaseVoice(voices[v])]
                /\ op' = OpRec("updateVoice", v, 0, TRUE)
           ELSE /\ al' = [al EXCEPT ![s] =
                            [AlSourceGain(al[s], FullGain(svolume))
                                EXCEPT !.pos = voices[v].pos,
                                       !.vel = voices[v].vel]]
                /\ op' = OpRec("updateVoice", v, 0, FALSE)
                /\ UNCHANGED <<source_stack, source_nstack, voices>>
    /\ UNCHANGED <<source_total, source_ntotal, source_mstack, svolume,
                   hostVars, al_groups, al_groupidgen, ticks, mtVars>>

\* The voice plays nothing (any more): no source, or a source that stopped.
Halted(v) ==
    voices[v].source = 0 \/ al[voices[v].source].state = AL_STOPPED

\* sound_al_stop that hands the source back to the pool itself.
sound_al_stop_Release(v) ==
    /\ v \in DOMAIN voices
    /\ LET s == voices[v].source
       IN  IF s # 0
           THEN /\ al' = [al EXCEPT ![s] = AlSourceStop(al[s])]
                /\ source_stack' = [source_stack EXCEPT ![source_nstack] = s]
                /\ source_nstack' = source_nstack + 1
                /\ voices' = [voices EXCEPT ![v].source = 0]
           ELSE UNCHANGED <<al, source_stack, source_nstack, voices>>
    /\ op' = OpRec("stop", v, 0, Halted(v))
    /\ UNCHANGED <<source_total, source_ntotal, source_mstack, svolume,
                   hostVars, al_groups, al_groupidgen, ticks, mtVars>>

\* sound_al_stop: halts the source of the voice, if it has one.
sound_al_stop(v) ==
    /\ v \in DOMAIN voices
    /\ LET s == voices[v].source
       IN  IF s # 0
           THEN al' = [al EXCEPT ![s] = AlSourceStop(al[s])]
           ELSE UNCHANGED al
    /\ op' = OpRec("stop", v, 0, Halted(v))
    /\ UNCHANGED <<poolVars, svolume, hostVars, al_groups, al_groupidgen,
                   voices, ticks, mtVars>>

\* The device: a playing source that does not loop reaches the end of its
\* buffer and stops, which alGetSourcei(AL_SOURCE_STATE) then reports.
HwFinish(s) ==
    /\ s \in DOMAIN al
    /\ al[s].state = AL_PLAYING
    /\ ~al[s].looping
    /\ al' = [al EXCEPT ![s].state = AL_STOPPED]
    /\ op' = OpRec("hwFinish", 0, 0, FALSE)
    /\ UNCHANGED <<poolVars, svolume, hostVars, al_groups, al_groupidgen,
                   voices, ticks, mtVars>>

\* ------------------------------------------------------------ the groups

\* createGroup without the loop at lines 1001-1008.
RemoveFromTotal_Skip(total, ntotal, s) == [total |-> total, ntotal |-> ntotal]

\* The loop at lines 1001-1008: the first entry of source_total equal to s
\* is taken out, the entries after it move down by one (the array keeps its
\* length, so its last entry stays behind, out of use).
RemoveFromTotal(total, ntotal, s) ==
    LET hits == {j \in 0..(ntotal - 1) : total[j] = s}
    IN  IF hits = {}
        THEN [total |-> total, ntotal |-> ntotal]
        ELSE LET j == CHOOSE x \in hits : \A y \in hits : x <= y
             IN  [total  |-> [k \in DOMAIN total |->
                                IF k >= j /\ k < ntotal - 1
                                THEN total[k + 1] ELSE total[k]],
                  ntotal |-> ntotal - 1]

\* The loop at lines 991-1009, from index i on: each turn pulls one source
\* off the free stack into the group and out of source_total; it ends with
\* ok = FALSE (group_err) as soon as the stack is empty.
RECURSIVE GroupTake(_, _, _)
GroupTake(i, size, st) ==
    IF i >= size THEN st
    ELSE IF st.nstack <= 0 THEN [st EXCEPT !.ok = FALSE]
    ELSE LET s  == source_stack[st.nstack - 1]
             rm == RemoveFromTotal(st.total, st.ntotal, s)
         IN  GroupTake(i + 1, size,
                 [nstack  |-> st.nstack - 1,
                  sources |-> [k \in 0..i |->
                                 IF k = i THEN s ELSE st.sources[k]],
                  total   |-> rm.total,
                  ntotal  |-> rm.ntotal,
                  ok      |-> TRUE])

\* createGroup that, at group_err, sets the free count back but leaves
\* source_total as the loop left it.
sound_al_createGroup_PutBack(size) ==
    /\ al_groupidgen < MaxGroupIds
    /\ LET id  == al_groupidgen + 1
           got == GroupTake(0, size,
                      [nstack |-> source_nstack, sources |-> <<>>,
                       total |-> source_total, ntotal |-> source_ntotal,
                       ok |-> TRUE])
           g   == [id |-> id, sources |-> got.sources, nsources |-> size,
                   state |-> VOICE_PLAYING, fade_timer |-> 0]
       IN  /\ al_groupidgen' = id
           /\ source_nstack' = IF got.ok THEN got.nstack ELSE source_nstack
           /\ source_total'  = got.total
           /\ source_ntotal' = got.ntotal
           /\ IF got.ok
              THEN /\ al_groups' = [k \in 0..al_ngroups |->
                                      IF k = al_ngroups THEN g
                                      ELSE al_groups[k]]
                   /\ op' = OpRec("createGroup", size, id, TRUE)
              ELSE /\ al_groups' = al_groups
                   /\ op' = OpRec("createGroup", size, 0, source_nstack > 0)
    /\ UNCHANGED <<source_stack, source_mstack, svolume, hostVars, voices, al,
                   ticks, mtVars>>

\* sound_al_createGroup.
sound_al_createGroup(size) ==
    /\ al_groupidgen < MaxGroupIds
    /\ LET id  == al_groupidgen + 1
           got == GroupTake(0, size,
                      [nstack |-> source_nstack, sources |-> <<>>,
                       total |-> source_total, ntotal |-> source_ntotal,
                       ok |-> TRUE])
           g   == [id |-> id, sources |-> got.sources, nsources |-> size,
                   state |-> VOICE_PLAYING, fade_timer |-> 0]
       IN  /\ al_groupidgen' = id
           /\ source_nstack' = got.nstack
           /\ source_total'  = got.total
           /\ source_ntotal' = got.ntotal
           /\ IF got.ok
              THEN /\ al_groups' = [k \in 0..al_ngroups |->
                                      IF k = al_ngroups THEN g
                                      ELSE al_groups[k]]
                   /\ op' = OpRec("createGroup", size, id, TRUE)
              ELSE /\ al_groups' = al_groups
                   /\ op' = OpRec("createGroup", size, 0, source_nstack > 0)
    /\ UNCHANGED <<source_stack, source_mstack, svolume, hostVars, voices, al,
                   ticks, mtVars>>

\* The index of the group with this id, or al_ngroups when there is none.
GroupIndex(group) ==
    LET hits == {i \in DOMAIN al_groups : al_groups[i].id = group}
    IN  IF hits = {} THEN al_ngroups
        ELSE CHOOSE i \in hits : \A k \in hits : i <= k

Busy(s) == al[s].state \in {AL_PLAYING, AL_PAUSED}

AllBusy(g) == \A k \in 0..(g.nsources - 1) : Busy(g.sources[k])

\* The loop at lines 1034-1065 without the branch of line 1038: the last
\* member is passed over like the others when it is playing or paused.
PickMember_NoSmash(g) ==
    LET idle == {j \in 0..(g.nsources - 1) : ~Busy(g.sources[j])}
    IN  IF idle = {} THEN g.nsources
        ELSE CHOOSE j \in idle : \A k \in idle : j <= k

\* The member the loop at lines 1034-1065 settles on: the first that is
\* neither playing nor paused, or else the last; nsources when the group has
\* no member.
PickMember(g) ==
    LET idle == {j \in 0..(g.nsources - 2) : ~Busy(g.sources[j])}
    IN  IF g.nsources <= 0 THEN g.nsources
        ELSE IF idle = {} THEN g.nsources - 1
        ELSE CHOOSE j \in idle : \A k \in idle : j <= k

\* sound_al_playGroup.
sound_al_playGroup(group, snd, once) ==
    LET i == GroupIndex(group)
    IN  IF i >= al_ngroups
        THEN /\ op' = OpRec("playGroup", 0, -1, FALSE)
             /\ UNCHANGED <<poolVars, svolume, hostVars, al_groups,
                            al_groupidgen, voices, al, ticks, mtVars>>
        ELSE LET g == al_groups[i]
                 j == PickMember(g)
             IN  /\ al_groups' = [al_groups EXCEPT ![i].state = VOICE_PLAYING]
                 /\ IF j >= g.nsources
                    THEN /\ op' = OpRec("playGroup", 0, -1, FALSE)
                         /\ UNCHANGED al
                    ELSE LET s  == g.sources[j]
                             smash == j = g.nsources - 1
                                      /\ al[s].state # AL_STOPPED
                             s1 == IF smash
                                   THEN AlSourceGain(AlSourceStop(al[s]),
                                                     FullGain(svolume))
                                   ELSE al[s]
                         IN  /\ al' = [al EXCEPT ![s] =
                                         AlSourcePlay(AlSourceLooping(
                                             AlSourceBuffer(s1, snd), ~once))]
                             /\ op' = OpRec("playGroup", 0, 0, AllBusy(g))
                 /\ UNCHANGED <<poolVars, svolume, hostVars, al_groupidgen,
                                voices, ticks, mtVars>>

\* sound_al_stopGroup: the loop leaves after its first turn, whatever the id
\* of the first group.
sound_al_stopGroup(group) ==
    /\ IF al_ngroups > 0 /\ al_groups[0].id = group
       THEN al_groups' = [al_groups EXCEPT ![0].state = VOICE_FADEOUT,
                                           ![0].fade_timer = ticks]
       ELSE UNCHANGED al_groups
    /\ op' = OpRec("stopGroup", 0, 0, FALSE)
    /\ UNCHANGED <<poolVars, svolume, hostVars, al_groupidgen, voices, al,
                   ticks, mtVars>>

\* The clock read once, when the fade began, and never again.
FadeElapsed_Zero(g, t) == 0

\* The time since the fade of g began, at time t. The clock only moves
\* forward and g.fade_timer is an earlier reading of it, so the unsigned
\* difference of the code never wraps in the range modelled.
FadeElapsed(g, t) == t - g.fade_timer

\* The members of group g after one turn of the loop of sound_al_update at
\* time t, applied to the device state a.
FadeGroup(a, g, t) ==
    LET f == FadeElapsed(g, t)
        members == {g.sources[j] : j \in 0..(g.nsources - 1)}
    IN  IF g.state # VOICE_FADEOUT THEN a
        ELSE IF f < SOUND_FADEOUT
        THEN [s \in DOMAIN a |->
                IF s \in members
                THEN AlSourceGain(a[s], (SOUND_FADEOUT - f) * svolume)
                ELSE a[s]]
        ELSE [s \in DOMAIN a |->
                IF s \in members
                THEN AlSourceGain(AlSourceBuffer(AlSourceStop(a[s]), AL_NONE),
                                  FullGain(svolume))
                ELSE a[s]]

FadeDone(g, t) ==
    /\ g.state = VOICE_FADEOUT
    /\ FadeElapsed(g, t) >= SOUND_FADEOUT

RECURSIVE UpdateLoop(_, _)
UpdateLoop(i, a) ==
    IF i >= al_ngroups THEN a
    ELSE UpdateLoop(i + 1, FadeGroup(a, al_groups[i], ticks))

\* sound_al_update: the fade-out of every group, once per frame.
sound_al_update ==
    /\ al' = UpdateLoop(0, al)
    /\ al_groups' = [i \in DOMAIN al_groups |->
                       IF FadeDone(al_groups[i], ticks)
                       THEN [al_groups[i] EXCEPT !.state = VOICE_PLAYING]
                       ELSE al_groups[i]]
    /\ op' = OpRec("update", 0, 0, FALSE)
    /\ UNCHANGED <<poolVars, svolume, hostVars, al_groupidgen, voices, ticks,
                   mtVars>>

\* SDL_GetTicks: the clock moves on.
Tick(step) ==
    /\ ticks + step <= MaxTicks
    /\ ticks' = ticks + step
    /\ op' = OpRec("tick", 0, 0, FALSE)
    /\ UNCHANGED <<poolVars, svolume, hostVars, al_groups, al_groupidgen,
                   voices, al, mtVars>>

\* ------------------------------------------------------ pause and volume

\* alSourcePause: a playing source is paused, otherwise a legal no-op.
AlSourcePause(s) ==
    IF s.state = AL_PLAYING THEN [s EXCEPT !.state = AL_PAUSED] ELSE s

\* The n first handles of the array src.
Handles(n, src) == {src[i] : i \in 0..(n - 1)}

\* al_pausev: of the n sources of src, those that play are paused.
al_pausev(a, n, src) ==
    [x \in DOMAIN a |->
        IF x \in Handles(n, src) /\ a[x].state = AL_PLAYING
        THEN AlSourcePause(a[x]) ELSE a[x]]

\* alSourcePlayv in the place of al_resumev: every source of src is played.
al_resumev_Playv(a, n, src) ==
    [x \in DOMAIN a |->
        IF x \in Handles(n, src) THEN AlSourcePlay(a[x]) ELSE a[x]]

\* al_resumev: of the n sources of src, those that are paused play again.
al_resumev(a, n, src) ==
    [x \in DOMAIN a |->
        IF x \in Handles(n, src) /\ a[x].state = AL_PAUSED
        THEN AlSourcePlay(a[x]) ELSE a[x]]

\* sound_al_pause: pauses the sources of source_total.
sound_al_pause ==
    /\ al' = al_pausev(al, source_ntotal, source_total)
    /\ op' = OpRec("pause", 0, 0, FALSE)
    /\ UNCHANGED <<poolVars, svolume, hostVars, al_groups, al_groupidgen,
                   voices, ticks, mtVars>>

\* sound_al_resume: resumes the sources of source_total.
sound_al_resume ==
    /\ al' = al_resumev(al, source_ntotal, source_total)
    /\ op' = OpRec("resume", 0, 0, FALSE)
    /\ UNCHANGED <<poolVars, svolume, hostVars, al_groups, al_groupidgen,
                   voices, ticks, mtVars>>

\* sound_al_pauseGroup.
sound_al_pauseGroup(group) ==
    /\ LET i == GroupIndex(group)
       IN  IF i < al_ngroups
           THEN al' = al_pausev(al, al_groups[i].nsources,
                                al_groups[i].sources)
           ELSE UNCHANGED al
    /\ op' = OpRec("pauseGroup", 0, 0, al' # al)
    /\ UNCHANGED <<poolVars, svolume, hostVars, al_groups, al_groupidgen,
                   voices, ticks, mtVars>>

\* sound_al_resumeGroup.
sound_al_resumeGroup(group) ==
    /\ LET i == GroupIndex(group)
       IN  IF i < al_ngroups
           THEN al' = al_resumev(al, al_groups[i].nsources,
                                 al_groups[i].sources)
           ELSE UNCHANGED al
    /\ op' = OpRec("resumeGroup", 0, 0, al' # al)
    /\ UNCHANGED <<poolVars, svolume, hostVars, al_groups, al_groupidgen,
                   voices, ticks, mtVars>>

\* sound_al_volume: the global volume is set, no source is touched.
sound_al_volume(vol) ==
    /\ svolume' = vol
    /\ op' = OpRec("volume", 0, 0, FALSE)
    /\ UNCHANGED <<poolVars, hostVars, al_groups, al_groupidgen, voices, al,
                   ticks, mtVars>>

\* ------------------------------------------------------- init and exit

\* The program before sound_al_init: the initial values of lines 64-106.
InitOff ==
    /\ source_stack  = <<>>
    /\ source_total  = <<>>
    /\ source_nstack = 0
    /\ source_ntotal = 0
    /\ source_mstack = 0
    /\ svolume = 1
    /\ al_groups = <<>>
    /\ al_groupidgen = 0
    /\ voices = <<>>
    /\ al = <<>>
    /\ ticks = 0
    /\ sound_lock = 0
    /\ thr = [t \in Threads |-> IdleThread]
    /\ sound_mutex = "NULL"
    /\ al_device = 0
    /\ al_context = 0
    /\ alc = [device |-> FALSE, context |-> FALSE, current |-> FALSE]
    /\ albuffers = <<>>
    /\ snd_buf = 0
    /\ proc = "running"
    /\ op = OpRec("start", 0, 0, FALSE)

\* The test of line 195: it fails the init when sound_lock is NULL.
ContextCheck(lockOk, ctxOk) == ~lockOk

\* sound_al_init. SDL_CreateMutex, alcOpenDevice and alcCreateContext each
\* succeed or not (lockOk, devOk, ctxOk); alcMakeContextCurrent succeeds on
\* a NULL context, which it takes as "no current context", and succeeds or
\* not on a real one (actOk); alcCloseDevice on a device that still has a
\* context closes it or refuses (closeOk); the device grants p sources, none
\* when no context is current. The record of the call notes whether the
\* device or the context could not be created.
sound_al_init(lockOk, devOk, ctxOk, actOk, closeOk, p) ==
    /\ sound_mutex = "NULL"
    /\ al_device = 0
    /\ IF ~devOk
       THEN \* snderr_dev
            /\ sound_mutex' = "NULL"
            /\ al_device' = 0
            /\ op' = OpRec("init", 0, -1, TRUE)
            /\ UNCHANGED <<poolVars, al, al_context, alc>>
       ELSE IF ContextCheck(lockOk, ctxOk)
       THEN \* snderr_ctx: the context pointer is dropped, not destroyed
            /\ sound_mutex' = "NULL"
            /\ al_device' = 0
            /\ al_context' = 0
            /\ alc' = [device  |-> ctxOk /\ ~closeOk,
                       context |-> ctxOk /\ ~closeOk,
                       current |-> FALSE]
            /\ op' = OpRec("init", 0, -2, ~ctxOk)
            /\ UNCHANGED <<poolVars, al>>
       ELSE IF ctxOk /\ ~actOk
       THEN \* snderr_act
            /\ sound_mutex' = "NULL"
            /\ al_device' = 0
            /\ al_context' = 0
            /\ alc' = [device |-> FALSE, context |-> FALSE,
                       current |-> FALSE]
            /\ op' = OpRec("init", 0, -4, FALSE)
            /\ UNCHANGED <<poolVars, al>>
       ELSE LET q == IF ctxOk THEN p ELSE 0
            IN  /\ sound_mutex' = IF lockOk THEN "created" ELSE "NULL"
                /\ al_device' = 1
                /\ al_context' = IF ctxOk THEN 1 ELSE 0
                /\ alc' = [device |-> TRUE, context |-> ctxOk,
                           current |-> ctxOk]
                /\ source_stack'  = [i \in 0..(q-1) |-> i + 1]
                /\ source_total'  = [i \in 0..(q-1) |-> i + 1]
                /\ source_nstack' = q
                /\ source_ntotal' = q
                /\ source_mstack' = q
                /\ al' = [s \in 1..q |->
                            [state |-> AL_INITIAL, buffer |-> AL_NONE,
                             looping |-> FALSE, gain |-> FullGain(1),
                             pos |-> <<0, 0>>, vel |-> <<0, 0>>]]
                /\ op' = OpRec("init", q, 0, ~ctxOk)
    /\ UNCHANGED <<svolume, wavVars, al_groups, al_groupidgen, voices,
                   ticks, mtVars>>

\* Lines 294-295: the two ifs have no statement of their own, so they
\* guard the loop that frees the groups (a stack of source_mstack > 0
\* entries is not NULL).
GroupsFreed == source_ntotal > 0 /\ source_mstack > 0

\* sound_al_exit: the sources of the groups (under the guard above) and
\* those of source_total are stopped and deleted, the arrays freed, the
\* context and the device closed, the mutex destroyed; the pointers
\* al_context, al_device and sound_lock keep their values.
sound_al_exit ==
    /\ sound_mutex = "created"
    /\ LET grp  == IF GroupsFreed
                   THEN UNION {Handles(al_groups[i].nsources,
                                       al_groups[i].sources) :
                                  i \in DOMAIN al_groups}
                   ELSE {}
           gone == grp \cup Handles(source_ntotal, source_total)
       IN  al' = [s \in (DOMAIN al) \ gone |-> al[s]]
    /\ al_groups' = <<>>
    /\ source_total' = <<>>
    /\ source_ntotal' = 0
    /\ source_stack' = <<>>
    /\ source_nstack' = 0
    /\ source_mstack' = 0
    /\ alc' = [device  |-> alc.device /\ al_device = 0,
               context |-> alc.context /\ al_context = 0,
               current |-> alc.current /\ al_context = 0]
    /\ sound_mutex' = "destroyed"
    /\ op' = OpRec("exit", 0, 0, GroupsFreed)
    /\ UNCHANGED <<svolume, al_device, al_context, wavVars, al_groupidgen,
                   voices, ticks, mtVars>>

\* ----------------------------------------------------------- the loader

\* A stream is the sequence of its bytes; positions count from 0. The tags
\* of the container are the bytes of "RIFF", "WAVE", "fmt ", "fact", "data".
RIFF == <<82, 73, 70, 70>>
WAVE == <<87, 65, 86, 69>>
FMT  == <<102, 109, 116, 32>>
FACT == <<102, 97, 99, 116>>
DATA == <<100, 97, 116, 97>>

Slice(f, pos, n) == SubSeq(f, pos + 1, pos + n)

\* SDL_RWread(rw, buf, n, 1): one object of n bytes is read, or none when
\* fewer bytes are left.
ReadOne(f, pos, n) ==
    IF pos + n <= Len(f) THEN [len |-> 1, pos |-> pos + n]
    ELSE [len |-> 0, pos |-> Len(f)]

\* SDL_RWseek(rw, off, SEEK_CUR): the position stays inside the stream.
SeekCur(f, pos, off) ==
    IF pos + off < 0 THEN 0
    ELSE IF pos + off > Len(f) THEN Len(f)
    ELSE pos + off

\* sound_al_wavReadCmp: 0 when the next bytes are those of cmp.
sound_al_wavReadCmp(f, pos, cmp) ==
    LET r == ReadOne(f, pos, Len(cmp))
    IN  IF r.len # 1 THEN [ret |-> -1, pos |-> r.pos]
        ELSE [ret |-> IF Slice(f, pos, Len(cmp)) = cmp THEN 0 ELSE 1,
              pos |-> r.pos]

\* sound_al_wavGetLen32: four bytes, little endian.
sound_al_wavGetLen32(f, pos) ==
    LET r == ReadOne(f, pos, 4)
        b == Slice(f, pos, 4)
    IN  IF r.len # 1 THEN [ret |-> -1, out |-> 0, pos |-> r.pos]
        ELSE [ret |-> 0,
              out |-> b[1] + 256 * b[2] + 65536 * b[3] + 16777216 * b[4],
              pos |-> r.pos]

\* sound_al_wavGetLen16 without the high byte.
sound_al_wavGetLen16_LowByte(f, pos) ==
    LET r == ReadOne(f, pos, 2)
        b == Slice(f, pos, 2)
    IN  IF r.len # 1 THEN [ret |-> -1, out |-> 0, pos |-> r.pos]
        ELSE [ret |-> 0, out |-> b[1], pos |-> r.pos]

\* sound_al_wavGetLen16: two bytes, little endian.
sound_al_wavGetLen16(f, pos) ==
    LET r == ReadOne(f, pos, 2)
        b == Slice(f, pos, 2)
    IN  IF r.len # 1 THEN [ret |-> -1, out |-> 0, pos |-> r.pos]
        ELSE [ret |-> 0, out |-> b[1] + 256 * b[2], pos |-> r.pos]

\* How a call of sound_al_loadWav ends: it returns -1 (wav_err, chunk_err),
\* it returns 0 with the data for a buffer, or it never returns. undef
\* tells that the call divided by 0 on its way.
WavErr == [end |-> "return", ret |-> -1, format |-> "", size |-> 0,
           rate |-> 0, undef |-> FALSE]

WavHang == [WavErr EXCEPT !.end = "hang"]

WavOk(format, size, rate) ==
    [end |-> "return", ret |-> 0, format |-> format, size |-> size,
     rate |-> rate, undef |-> FALSE]

\* Lines 545-569: the format from the channel count and from align.
WavFormat(channels, align) ==
    IF channels = 2
    THEN IF align = 16 THEN "AL_FORMAT_STEREO16"
         ELSE IF align = 8 THEN "AL_FORMAT_STEREO8"
         ELSE ""
    ELSE IF channels = 1
    THEN IF align = 16 THEN "AL_FORMAT_MONO16"
         ELSE IF align = 8 THEN "AL_FORMAT_MONO8"
         ELSE ""
    ELSE ""

\* Lines 523-582, from the tag magic read at the end of the chunks before
\* the data: the length, the payload, the format. The loop of lines 541-543
\* adds what each read returns, which is 0 once the stream is at its end.
WavData(f, pos, magic, channels, align, rate) ==
    IF magic # DATA THEN WavErr
    ELSE LET r == sound_al_wavGetLen32(f, pos)
         IN  IF r.ret # 0 THEN WavErr
             ELSE IF Len(f) - r.pos < r.out THEN WavHang
             ELSE IF WavFormat(channels, align) = "" THEN WavErr
             ELSE WavOk(WavFormat(channels, align), r.out, rate)

\* Lines 493-521, from the end of the fields of the format chunk: the rest
\* of that chunk and a fact chunk are passed over. chunklen is unsigned, so
\* a chunk shorter than its 16 bytes of fields makes the seek of line 494
\* one of nearly 2^32 bytes, to the end of the stream.
WavChunks(f, pos, chunklen, channels, align, rate) ==
    LET p1 == IF chunklen >= 16 THEN SeekCur(f, pos, chunklen - 16)
              ELSE Len(f)
        r1 == ReadOne(f, p1, 4)
    IN  IF r1.len # 1 THEN WavErr
        ELSE IF Slice(f, p1, 4) = FACT
        THEN LET r2 == sound_al_wavGetLen32(f, r1.pos)
                 p2 == SeekCur(f, r2.pos, r2.out)
                 r3 == ReadOne(f, p2, 4)
             IN  IF r2.ret # 0 THEN WavErr
                 ELSE IF r3.len # 1 THEN WavErr
                 ELSE WavData(f, r3.pos, Slice(f, p2, 4), channels, align,
                              rate)
        ELSE WavData(f, r1.pos, Slice(f, p1, 4), channels, align, rate)

\* Lines 446-491, from the start of the fields of the format chunk. The
\* division of line 490 by a channel count of 0 is undefined; if the call
\* goes on, it is with some value in align, which line 566 never looks at.
WavFields(f, pos, chunklen) ==
    LET compressed == sound_al_wavGetLen16(f, pos)
        channels   == sound_al_wavGetLen16(f, compressed.pos)
        rate       == sound_al_wavGetLen32(f, channels.pos)
        unused32   == sound_al_wavGetLen32(f, rate.pos)
        unused16   == sound_al_wavGetLen16(f, unused32.pos)
        align      == sound_al_wavGetLen16(f, unused16.pos)
    IN  IF compressed.ret # 0 THEN WavErr
        ELSE IF compressed.out # 1 THEN WavErr
        ELSE IF channels.ret # 0 THEN WavErr
        ELSE IF rate.ret # 0 THEN WavErr
        ELSE IF unused32.ret # 0 THEN WavErr
        ELSE IF unused16.ret # 0 THEN WavErr
        ELSE IF align.ret # 0 THEN WavErr
        ELSE IF channels.out = 0
        THEN [WavChunks(f, align.pos, chunklen, 0, 0, rate.out)
                 EXCEPT !.undef = TRUE]
        ELSE WavChunks(f, align.pos, chunklen, channels.out,
                       align.out \div channels.out, rate.out)

\* Lines 415-444: the tags and lengths before the fields.
WavParse(f) ==
    LET riff     == sound_al_wavReadCmp(f, 0, RIFF)
        filelen  == sound_al_wavGetLen32(f, riff.pos)
        wave     == sound_al_wavReadCmp(f, filelen.pos, WAVE)
        fmt      == sound_al_wavReadCmp(f, wave.pos, FMT)
        chunklen == sound_al_wavGetLen32(f, fmt.pos)
    IN  IF riff.ret # 0 THEN WavErr
        ELSE IF filelen.ret # 0 THEN WavErr
        ELSE IF wave.ret # 0 THEN WavErr
        ELSE IF fmt.ret # 0 THEN WavErr
        ELSE IF chunklen.ret # 0 THEN WavErr
        ELSE WavFields(f, chunklen.pos, chunklen.out)

\* alGenBuffers: a name no buffer of the device has.
NewBuffer == CHOOSE b \in 1..(Cardinality(DOMAIN albuffers) + 1) :
                b \notin DOMAIN albuffers

\* sound_al_loadWav on the stream f, into the one sound structure snd. A
\* division by 0 either ends the process in a trap or lets the call go on.
sound_al_loadWav(f) ==
    /\ proc = "running"
    /\ Cardinality(DOMAIN albuffers) < MaxResident
    /\ LET r == WavParse(f)
           b == NewBuffer
       IN  \E trap \in (IF r.undef THEN BOOLEAN ELSE {FALSE}) :
             IF trap
             THEN /\ proc' = "crashed"
                  /\ op' = OpRec("loadWav", f, -1, FALSE)
                  /\ UNCHANGED <<albuffers, snd_buf>>
             ELSE IF r.end = "hang"
             THEN /\ proc' = "hung"
                  /\ op' = OpRec("loadWav", f, -1, FALSE)
                  /\ UNCHANGED <<albuffers, snd_buf>>
             ELSE IF r.ret # 0
             THEN /\ op' = OpRec("loadWav", f, -1, FALSE)
                  /\ UNCHANGED <<albuffers, snd_buf, proc>>
             ELSE /\ albuffers' =
                        [x \in (DOMAIN albuffers) \cup {b} |->
                            IF x = b
                            THEN [format |-> r.format, size |-> r.size,
                                  rate |-> r.rate]
                            ELSE albuffers[x]]
                  /\ snd_buf' = b
                  /\ op' = OpRec("loadWav", f, 0, TRUE)
                  /\ UNCHANGED proc
    /\ UNCHANGED <<poolVars, svolume, alcVars, al_groups, al_groupidgen,
                   voices, al, ticks, mtVars>>

\* sound_al_free: the buffer of a loaded sound is deleted.
sound_al_free ==
    /\ proc = "running"
    /\ snd_buf \in DOMAIN albuffers
    /\ albuffers' = [x \in (DOMAIN albuffers) \ {snd_buf} |-> albuffers[x]]
    /\ op' = OpRec("free", 0, 0, FALSE)
    /\ UNCHANGED <<poolVars, svolume, alcVars, snd_buf, proc, al_groups,
                   al_groupidgen, voices, al, ticks, mtVars>>

\* The container as section 6 of the specification lays it out, for a
\* header h: the fields little endian, h.extra more bytes in the format
\* chunk, a fact chunk if h.fact, and a payload h.short bytes short of the
\* h.datalen bytes that the data chunk declares.
LE16(n) == <<n % 256, (n \div 256) % 256>>

LE32(n) == <<n % 256, (n \div 256) % 256, (n \div 65536) % 256,
             (n \div 16777216) % 256>>

Zeros(n) == [k \in 1..n |-> 0]

MakeWav(h) ==
    LET block == h.channels * (h.bits \div 8)
        fmt   == LE16(h.compressed) \o LE16(h.channels) \o LE32(h.rate)
                 \o LE32(h.rate * block) \o LE16(block) \o LE16(h.bits)
                 \o Zeros(h.extra)
        fact  == IF h.fact THEN FACT \o LE32(4) \o Zeros(4) ELSE <<>>
        body  == WAVE \o FMT \o LE32(16 + h.extra) \o fmt \o fact
                 \o DATA \o LE32(h.datalen) \o Zeros(h.datalen - h.short)
    IN  RIFF \o LE32(Len(body)) \o body

\* The compression codes, sample rates and bit depths written in headers.
WavCompressions == {1, 2, 257}

WavRates == {300}

WavBits == {8 * k : k \in 1..MaxSampleBytes}

WavHeaders ==
    {h \in [compressed : WavCompressions, channels : 0..MaxChannels,
            rate : WavRates, bits : WavBits, extra : {0, MaxExtra},
            fact : BOOLEAN, datalen : 0..MaxData, short : 0..MaxData] :
        h.short <= h.datalen}

\* A mono 16-bit container with its payload, the same cut short after any
\* number of bytes, and the same with any one byte set to 0.
PlainWav ==
    MakeWav([compressed |-> 1, channels |-> 1, rate |-> 300, bits |-> 16,
             extra |-> 0, fact |-> TRUE, datalen |-> MaxData,
             short |-> 0])

CutWavs == {SubSeq(PlainWav, 1, n) : n \in 0..Len(PlainWav)}

DamagedWavs == {[PlainWav EXCEPT ![k] = 0] : k \in 1..Len(PlainWav)}

WavFiles == {MakeWav(h) : h \in WavHeaders} \cup CutWavs \cup DamagedWavs

\* ------------------------------------------------------- specifications

\* sound_al_play: al_playVoice at the origin, one of the sounds snds on a
\* voice structure in one of the states sts.
Play(snds, sts) ==
    \E v \in VoiceIds, snd \in snds, st \in sts :
        al_playVoice(v, snd, 0, 0, 0, 0, st)

UpdatePos ==
    \E v \in VoiceIds, c \in 1..MaxCoord :
        sound_al_updatePos(v, c, 0 - c, 2 * c, 0 - 2 * c)

Sweep == \E v \in VoiceIds : sound_al_updateVoice(v)

Stop == \E v \in VoiceIds : sound_al_stop(v)

Finish == \E s \in Sources : HwFinish(s)

CreateGroup == \E size \in 0..MaxGroupSize : sound_al_createGroup(size)

PlayGroup(snds) ==
    \E group \in GroupIds, snd \in snds, once \in BOOLEAN :
        sound_al_playGroup(group, snd, once)

StopGroup == \E group \in GroupIds : sound_al_stopGroup(group)

Update == sound_al_update

\* Voices and groups together, one sound, whole calls.
Next ==
    \/ Play({1}, {VOICE_PLAYING})
    \/ Sweep
    \/ Stop
    \/ Finish
    \/ CreateGroup
    \/ PlayGroup({1})
    \/ StopGroup
    \/ Update
    \/ Tick(TickStep)

Spec == Init /\ [][Next]_vars

\* The voices alone, every sound and every coordinate.
NextVoice ==
    \/ Play(Buffers, VoiceStates)
    \/ UpdatePos
    \/ Sweep
    \/ Stop
    \/ Finish

SpecVoice == InitFull /\ [][NextVoice]_vars

\* The groups alone, every sound.
NextGroup ==
    \/ CreateGroup
    \/ PlayGroup(Buffers)
    \/ StopGroup
    \/ Update
    \/ Tick(TickStep)
    \/ Finish

SpecGroup == InitFull /\ [][NextGroup]_vars

Pause == sound_al_pause

Resume == sound_al_resume

PauseGroup == \E group \in GroupIds : sound_al_pauseGroup(group)

ResumeGroup == \E group \in GroupIds : sound_al_resumeGroup(group)

Volume == \E vol \in 0..MaxVolume : sound_al_volume(vol)

\* The groups over time: fades seen at every FadeStep, under any volume.
NextFade ==
    \/ CreateGroup
    \/ PlayGroup({1})
    \/ StopGroup
    \/ PauseGroup
    \/ ResumeGroup
    \/ Update
    \/ Tick(FadeStep)
    \/ Volume
    \/ Finish

SpecFade == Init /\ [][NextFade]_vars

\* Voices and groups, paused and resumed, one sound.
NextPause ==
    \/ Play({1}, {VOICE_PLAYING})
    \/ Sweep
    \/ Stop
    \/ Finish
    \/ CreateGroup
    \/ PlayGroup({1})
    \/ Pause
    \/ Resume
    \/ PauseGroup
    \/ ResumeGroup

SpecPause == Init /\ [][NextPause]_vars

\* sound_al_init, with every outcome of the calls it makes.
InitCall ==
    \E lockOk \in BOOLEAN, devOk \in BOOLEAN, ctxOk \in BOOLEAN,
       actOk \in BOOLEAN, closeOk \in BOOLEAN, p \in 0..MixSources :
        sound_al_init(lockOk, devOk, ctxOk, actOk, closeOk, p)

\* The backend is in use: init has returned 0 and exit was not called.
Live == sound_mutex = "created"

LivePlay == Live /\ Play({1}, {VOICE_PLAYING})

LiveSweep == Live /\ Sweep

LiveFinish == Live /\ Finish

LiveCreateGroup == Live /\ CreateGroup

LivePlayGroup == Live /\ PlayGroup({1})

Exit == sound_al_exit

\* From before init to after exit.
NextLife ==
    \/ InitCall
    \/ LivePlay
    \/ LiveSweep
    \/ LiveFinish
    \/ LiveCreateGroup
    \/ LivePlayGroup
    \/ Exit

SpecLife == InitOff /\ [][NextLife]_vars

LoadWav == \E f \in WavFiles : sound_al_loadWav(f)

Free == sound_al_free

\* The buffer store: loads of every stream, and frees.
NextWav ==
    \/ LoadWav
    \/ Free

\* The loads come after an init that was granted all its sources.
InitWav == Init /\ source_ntotal = MixSources

SpecWav == InitWav /\ [][NextWav]_vars

\* The voices of one sound, with the sweep of every voice and the play
\* requests coming again and again: the caller sweeps every voice on each
\* of its frames and goes on asking for sounds.
NextRetry ==
    \/ Play({1}, {VOICE_PLAYING})
    \/ Sweep
    \/ Stop
    \/ Finish

SpecRetry ==
    /\ Init
    /\ [][NextRetry]_vars
    /\ WF_vars(Play({1}, {VOICE_PLAYING}))
    /\ \A v \in VoiceIds : WF_vars(sound_al_updateVoice(v))

\* ------------------------------------- the calls of two threads, by line

\* Each shared access of a call is a step of its own, named by its line, so
\* that two threads' calls interleave as the code lets them.

Running(v) == \E t \in Threads : thr[t].pc # "idle" /\ thr[t].v = v

\* The free count still lies within the stack. Once it does not, the calls
\* read and write past the array; no further call is started from there,
\* which also keeps the count bounded.
CountInStack == source_nstack \in 0..source_mstack

At(t, pc) == thr[t].pc = pc

Goto(t, pc) == [thr EXCEPT ![t].pc = pc]

\* What a read of source_stack[i] yields: the entry, or, outside the array,
\* whatever lies there (any handle, or 0).
StackRead(i) ==
    IF i \in DOMAIN source_stack THEN {source_stack[i]}
    ELSE (DOMAIN al) \cup {0}

\* Thread t enters al_playVoice with the fresh voice structure of slot v.
PlayCall(t, v, snd, st) ==
    /\ At(t, "idle")
    /\ CountInStack
    /\ v \in VoiceIds
    /\ ~Running(v)
    /\ v \in DOMAIN voices => voices[v].source = 0
    /\ voices' = SetVoice(v, NewVoice(st))
    /\ thr' = [thr EXCEPT ![t] =
                 [pc |-> "getSource_733", v |-> v, snd |-> snd, n |-> 0]]
    /\ UNCHANGED <<poolVars, svolume, hostVars, al_groups, al_groupidgen, al,
                   ticks, sound_lock, op>>

\* Line 733 (and 734, 752-753): no free source, play returns -1.
GetSourceCheck(t) ==
    /\ At(t, "getSource_733")
    /\ IF source_nstack <= 0
       THEN /\ voices' = [voices EXCEPT ![thr[t].v].source = 0]
            /\ thr' = [thr EXCEPT ![t] = IdleThread]
            /\ op' = OpRec("play", thr[t].v, -1, FALSE)
       ELSE /\ thr' = Goto(t, "getSource_737_load")
            /\ UNCHANGED <<voices, op>>
    /\ UNCHANGED <<poolVars, svolume, hostVars, al_groups, al_groupidgen, al,
                   ticks, sound_lock>>

\* Line 737, source_nstack--: the load.
GetSourceDecLoad(t) ==
    /\ At(t, "getSource_737_load")
    /\ thr' = [thr EXCEPT ![t].pc = "getSource_737_store",
                          ![t].n = source_nstack]
    /\ UNCHANGED <<poolVars, svolume, hostVars, al_groups, al_groupidgen,
                   voices, al, ticks, sound_lock, op>>

\* Line 737, source_nstack--: the store.
GetSourceDecStore(t) ==
    /\ At(t, "getSource_737_store")
    /\ source_nstack' = thr[t].n - 1
    /\ thr' = Goto(t, "getSource_738")
    /\ UNCHANGED <<source_stack, source_total, source_ntotal, source_mstack,
                   svolume, hostVars, al_groups, al_groupidgen, voices, al,
                   ticks, sound_lock, op>>

\* Lines 738-740 and 751-754: the handle read off the stack goes to the
\* voice; a handle of 0 ends the call.
GetSourceRead(t) ==
    /\ At(t, "getSource_738")
    /\ \E s \in StackRead(source_nstack) :
         IF s = 0
         THEN /\ voices' = [voices EXCEPT ![thr[t].v].source = 0]
              /\ thr' = [thr EXCEPT ![t] = IdleThread]
              /\ op' = OpRec("play", thr[t].v, -1, FALSE)
         ELSE /\ voices' = [voices EXCEPT ![thr[t].v].source = s,
                                          ![thr[t].v].buffer = thr[t].snd]
              /\ thr' = Goto(t, "playVoice_756")
              /\ UNCHANGED op
    /\ UNCHANGED <<poolVars, svolume, hostVars, al_groups, al_groupidgen, al,
                   ticks, sound_lock>>

\* soundLock(), at the line `from`, going on to `to`.
Lock(t, from, to) ==
    /\ At(t, from)
    /\ sound_lock = 0
    /\ sound_lock' = t
    /\ thr' = Goto(t, to)
    /\ UNCHANGED <<poolVars, svolume, hostVars, al_groups, al_groupidgen,
                   voices, al, ticks, op>>

\* Lines 759-785: under the lock the source gets its buffer and gain and
\* is started; soundUnlock().
PlayVoiceStart(t) ==
    /\ At(t, "playVoice_759")
    /\ LET v == thr[t].v
           s == voices[v].source
       IN  /\ voices' = [voices EXCEPT ![v].pos = <<0, 0>>,
                                       ![v].vel = <<0, 0>>]
           /\ al' = [al EXCEPT ![s] =
                       AlSourcePlay(
                         [AlSourceGain(AlSourceBuffer(al[s], voices[v].buffer),
                                       FullGain(svolume))
                             EXCEPT !.pos = <<0, 0>>, !.vel = <<0, 0>>])]
           /\ op' = OpRec("play", v, 0, TRUE)
    /\ sound_lock' = 0
    /\ thr' = [thr EXCEPT ![t] = IdleThread]
    /\ UNCHANGED <<poolVars, svolume, hostVars, al_groups, al_groupidgen,
                   ticks>>

\* Thread t enters sound_al_updateVoice on the voice of slot v.
SweepCall(t, v) ==
    /\ At(t, "idle")
    /\ CountInStack
    /\ v \in DOMAIN voices
    /\ ~Running(v)
    /\ thr' = [thr EXCEPT ![t] =
                 [pc |-> "updateVoice_845", v |-> v, snd |-> 0, n |-> 0]]
    /\ UNCHANGED <<poolVars, svolume, hostVars, al_groups, al_groupidgen,
                   voices, al, ticks, sound_lock, op>>

\* Lines 845-848: a voice without a source is marked for deletion.
SweepCheck(t) ==
    /\ At(t, "updateVoice_845")
    /\ IF voices[thr[t].v].source = 0
       THEN /\ voices' = [voices EXCEPT ![thr[t].v].state = VOICE_DESTROY]
            /\ thr' = [thr EXCEPT ![t] = IdleThread]
            /\ op' = OpRec("updateVoice", thr[t].v, 0, FALSE)
       ELSE /\ thr' = Goto(t, "updateVoice_850")
            /\ UNCHANGED <<voices, op>>
    /\ UNCHANGED <<poolVars, svolume, hostVars, al_groups, al_groupidgen, al,
                   ticks, sound_lock>>

\* Lines 853-862 and 875-882: under the lock, a stopped source loses its
\* buffer, any other gets the voice's gain and coordinates; soundUnlock().
SweepState(t) ==
    /\ At(t, "updateVoice_853")
    /\ LET v == thr[t].v
           s == voices[v].source
       IN  IF al[s].state = AL_STOPPED
           THEN /\ al' = [al EXCEPT ![s] = AlSourceBuffer(al[s], AL_NONE)]
                /\ thr' = Goto(t, "updateVoice_865")
                /\ UNCHANGED op
           ELSE /\ al' = [al EXCEPT ![s] =
                            [AlSourceGain(al[s], FullGain(svolume))
                                EXCEPT !.pos = voices[v].pos,
                                       !.vel = voices[v].vel]]
                /\ thr' = [thr EXCEPT ![t] = IdleThread]
                /\ op' = OpRec("updateVoice", v, 0, FALSE)
    /\ sound_lock' = 0
    /\ UNCHANGED <<poolVars, svolume, hostVars, al_groups, al_groupidgen,
                   voices, ticks>>

\* Line 865: the handle is written on top of the free stack (a write past
\* the end of the array is taken to land outside it).
SweepPush(t) ==
    /\ At(t, "updateVoice_865")
    /\ source_stack' =
          IF source_nstack \in DOMAIN source_stack
          THEN [source_stack EXCEPT
                   ![source_nstack] = voices[thr[t].v].source]
          ELSE source_stack
    /\ thr' = Goto(t, "updateVoice_866_load")
    /\ UNCHANGED <<source_total, source_nstack, source_ntotal, source_mstack,
                   svolume, hostVars, al_groups, al_groupidgen, voices, al,
                   ticks, sound_lock, op>>

\* Line 866, source_nstack++: the load.
SweepIncLoad(t) ==
    /\ At(t, "updateVoice_866_load")
    /\ thr' = [thr EXCEPT ![t].pc = "updateVoice_866_store",
                          ![t].n = source_nstack]
    /\ UNCHANGED <<poolVars, svolume, hostVars, al_groups, al_groupidgen,
                   voices, al, ticks, sound_lock, op>>

\* Line 866, source_nstack++: the store.
SweepIncStore(t) ==
    /\ At(t, "updateVoice_866_store")
    /\ source_nstack' = thr[t].n + 1
    /\ thr' = Goto(t, "updateVoice_867")
    /\ UNCHANGED <<source_stack, source_total, source_ntotal, source_mstack,
                   svolume, hostVars, al_groups, al_groupidgen, voices, al,
                   ticks, sound_lock, op>>

\* Lines 867-871: the voice lets go of the handle and is marked stopped.
SweepRelease(t) ==
    /\ At(t, "updateVoice_867")
    /\ voices' = [voices EXCEPT ![thr[t].v] = ReleaseVoice(voices[thr[t].v])]
    /\ thr' = [thr EXCEPT ![t] = IdleThread]
    /\ op' = OpRec("updateVoice", thr[t].v, 0, TRUE)
    /\ UNCHANGED <<poolVars, svolume, hostVars, al_groups, al_groupidgen, al,
                   ticks, sound_lock>>

\* Thread t enters sound_al_stop on the voice of slot v.
StopCall(t, v) ==
    /\ At(t, "idle")
    /\ CountInStack
    /\ v \in DOMAIN voices
    /\ ~Running(v)
    /\ thr' = [thr EXCEPT ![t] =
                 [pc |-> "stop_891", v |-> v, snd |-> 0, n |-> 0]]
    /\ UNCHANGED <<poolVars, svolume, hostVars, al_groups, al_groupidgen,
                   voices, al, ticks, sound_lock, op>>

\* Lines 893-899: under the lock the source, if any, is halted;
\* soundUnlock().
StopHalt(t) ==
    /\ At(t, "stop_893")
    /\ LET s == voices[thr[t].v].source
       IN  /\ IF s # 0
              THEN al' = [al EXCEPT ![s] = AlSourceStop(al[s])]
              ELSE UNCHANGED al
           /\ op' = OpRec("stop", thr[t].v, 0, Halted(thr[t].v))
    /\ sound_lock' = 0
    /\ thr' = [thr EXCEPT ![t] = IdleThread]
    /\ UNCHANGED <<poolVars, svolume, hostVars, al_groups, al_groupidgen,
                   voices, ticks>>

NextThreads ==
    \/ \E t \in Threads, v \in VoiceIds, snd \in {1} :
          PlayCall(t, v, snd, VOICE_PLAYING)
    \/ \E t \in Threads : GetSourceCheck(t)
    \/ \E t \in Threads : GetSourceDecLoad(t)
    \/ \E t \in Threads : GetSourceDecStore(t)
    \/ \E t \in Threads : GetSourceRead(t)
    \/ \E t \in Threads : Lock(t, "playVoice_756", "playVoice_759")
    \/ \E t \in Threads : PlayVoiceStart(t)
    \/ \E t \in Threads, v \in VoiceIds : SweepCall(t, v)
    \/ \E t \in Threads : SweepCheck(t)
    \/ \E t \in Threads : Lock(t, "updateVoice_850", "updateVoice_853")
    \/ \E t \in Threads : SweepState(t)
    \/ \E t \in Threads : SweepPush(t)
    \/ \E t \in Threads : SweepIncLoad(t)
    \/ \E t \in Threads : SweepIncStore(t)
    \/ \E t \in Threads : SweepRelease(t)
    \/ \E t \in Threads, v \in VoiceIds : StopCall(t, v)
    \/ \E t \in Threads : Lock(t, "stop_891", "stop_893")
    \/ \E t \in Threads : StopHalt(t)
    \/ Finish

SpecThreads == Init /\ [][NextThreads]_vars

\* ------------------------------------- the lock, on every path of a call

\* The calls that take the sound lock, each as the lines where it can
\* stand and the ways from one line to the next: <<function, from, kind,
\* to>>. A "lock" is a soundLock(), an "unlock" the soundUnlock() that ends
\* the lines after it, a "jump" any other way the code can go, a "return"
\* the end of the call. Which way a call goes is left open.

\* sound_al_free, lines 694-702.
LockPath_free ==
    { <<"free", "idle", "call", "free_696">>,
      <<"free", "free_696", "lock", "free_697">>,
      <<"free", "free_697", "unlock", "free_702">>,
      <<"free", "free_702", "return", "idle">> }

\* sound_al_loadWav, lines 402-589: every error leaves before line 574.
LockPath_loadWav ==
    { <<"loadWav", "loadWav_415", "jump", "load_676">>,
      <<"loadWav", "loadWav_415", "jump", "loadWav_574">>,
      <<"loadWav", "loadWav_574", "lock", "loadWav_576">>,
      <<"loadWav", "loadWav_576", "unlock", "load_680">> }

\* sound_al_loadOgg, lines 598-640.
LockPath_loadOgg ==
    { <<"loadOgg", "loadOgg_608", "jump", "load_676">>,
      <<"loadOgg", "loadOgg_608", "jump", "loadOgg_628">>,
      <<"loadOgg", "loadOgg_628", "lock", "loadOgg_630">>,
      <<"loadOgg", "loadOgg_630", "unlock", "load_680">> }

\* sound_al_load, lines 649-688: one of the two loaders, then line 676
\* when it failed and line 680 when it did not.
LockPath_load ==
    { <<"load", "idle", "call", "load_656">>,
      <<"load", "load_656", "jump", "loadOgg_608">>,
      <<"load", "load_656", "jump", "loadWav_415">>,
      <<"load", "load_676", "return", "idle">>,
      <<"load", "load_680", "lock", "load_683">>,
      <<"load", "load_683", "unlock", "load_687">>,
      <<"load", "load_687", "return", "idle">> }

\* al_playVoice, lines 747-786.
LockPath_playVoice ==
    { <<"play", "idle", "call", "playVoice_751">>,
      <<"play", "playVoice_751", "jump", "playVoice_753">>,
      <<"play", "playVoice_753", "return", "idle">>,
      <<"play", "playVoice_751", "jump", "playVoice_756">>,
      <<"play", "playVoice_756", "lock", "playVoice_759">>,
      <<"play", "playVoice_759", "unlock", "playVoice_785">>,
      <<"play", "playVoice_785", "return", "idle">> }

\* sound_al_updateVoice, lines 840-883.
LockPath_updateVoice ==
    { <<"updateVoice", "idle", "call", "updateVoice_845">>,
      <<"updateVoice", "updateVoice_845", "jump", "updateVoice_847">>,
      <<"updateVoice", "updateVoice_847", "return", "idle">>,
      <<"updateVoice", "updateVoice_845", "jump", "updateVoice_850">>,
      <<"updateVoice", "updateVoice_850", "lock", "updateVoice_853">>,
      <<"updateVoice", "updateVoice_853", "unlock", "updateVoice_865">>,
      <<"updateVoice", "updateVoice_865", "return", "idle">>,
      <<"updateVoice", "updateVoice_853", "unlock", "updateVoice_883">>,
      <<"updateVoice", "updateVoice_883", "return", "idle">> }

\* sound_al_stop, lines 889-900.
LockPath_stop ==
    { <<"stop", "idle", "call", "stop_891">>,
      <<"stop", "stop_891", "lock", "stop_893">>,
      <<"stop", "stop_893", "unlock", "stop_900">>,
      <<"stop", "stop_900", "return", "idle">> }

\* sound_al_pause, lines 906-913.
LockPath_pause ==
    { <<"pause", "idle", "call", "pause_908">>,
      <<"pause", "pause_908", "lock", "pause_909">>,
      <<"pause", "pause_909", "unlock", "pause_913">>,
      <<"pause", "pause_913", "return", "idle">> }

\* sound_al_resume, lines 919-926.
LockPath_resume ==
    { <<"resume", "idle", "call", "resume_921">>,
      <<"resume", "resume_921", "lock", "resume_922">>,
      <<"resume", "resume_922", "unlock", "resume_926">>,
      <<"resume", "resume_926", "return", "idle">> }

\* sound_al_updateListener, lines 932-965.
LockPath_updateListener ==
    { <<"updateListener", "idle", "call", "updateListener_941">>,
      <<"updateListener", "updateListener_941", "lock",
        "updateListener_943">>,
      <<"updateListener", "updateListener_943", "unlock",
        "updateListener_964">>,
      <<"updateListener", "updateListener_964", "return", "idle">> }

\* sound_al_playGroup with no soundUnlock() at line 1066.
LockPath_playGroup_NoUnlock ==
    { <<"playGroup", "idle", "call", "playGroup_1029">>,
      <<"playGroup", "playGroup_1029", "jump", "playGroup_1075">>,
      <<"playGroup", "playGroup_1029", "jump", "playGroup_1033">>,
      <<"playGroup", "playGroup_1033", "lock", "playGroup_1034">>,
      <<"playGroup", "playGroup_1034", "unlock", "playGroup_1064">>,
      <<"playGroup", "playGroup_1064", "return", "idle">>,
      <<"playGroup", "playGroup_1034", "jump", "playGroup_1075">>,
      <<"playGroup", "playGroup_1075", "return", "idle">> }

\* sound_al_playGroup, lines 1023-1079: no group of that id (to line
\* 1075), or a group whose members are gone through under the lock, which
\* ends at line 1063 with a member started or at line 1066 with none.
LockPath_playGroup ==
    { <<"playGroup", "idle", "call", "playGroup_1029">>,
      <<"playGroup", "playGroup_1029", "jump", "playGroup_1075">>,
      <<"playGroup", "playGroup_1029", "jump", "playGroup_1033">>,
      <<"playGroup", "playGroup_1033", "lock", "playGroup_1034">>,
      <<"playGroup", "playGroup_1034", "unlock", "playGroup_1064">>,
      <<"playGroup", "playGroup_1064", "return", "idle">>,
      <<"playGroup", "playGroup_1034", "unlock", "playGroup_1075">>,
      <<"playGroup", "playGroup_1075", "return", "idle">> }

\* sound_al_pauseGroup, lines 1107-1124.
LockPath_pauseGroup ==
    { <<"pauseGroup", "idle", "call", "pauseGroup_1112">>,
      <<"pauseGroup", "pauseGroup_1112", "jump", "pauseGroup_1122">>,
      <<"pauseGroup", "pauseGroup_1112", "jump", "pauseGroup_1115">>,
      <<"pauseGroup", "pauseGroup_1115", "lock", "pauseGroup_1116">>,
      <<"pauseGroup", "pauseGroup_1116", "unlock", "pauseGroup_1122">>,
      <<"pauseGroup", "pauseGroup_1122", "return", "idle">> }

\* sound_al_resumeGroup, lines 1130-1147.
LockPath_resumeGroup ==
    { <<"resumeGroup", "idle", "call", "resumeGroup_1135">>,
      <<"resumeGroup", "resumeGroup_1135", "jump", "resumeGroup_1145">>,
      <<"resumeGroup", "resumeGroup_1135", "jump", "resumeGroup_1138">>,
      <<"resumeGroup", "resumeGroup_1138", "lock", "resumeGroup_1139">>,
      <<"resumeGroup", "resumeGroup_1139", "unlock", "resumeGroup_1145">>,
      <<"resumeGroup", "resumeGroup_1145", "return", "idle">> }

\* sound_al_update, lines 1185-1227: for each group nothing, the fade
\* (lines 1203-1208) or the end of the fade (lines 1212-1220).
LockPath_update ==
    { <<"update", "idle", "call", "update_1194">>,
      <<"update", "update_1194", "jump", "update_1203">>,
      <<"update", "update_1203", "lock", "update_1204">>,
      <<"update", "update_1204", "unlock", "update_1194">>,
      <<"update", "update_1194", "jump", "update_1212">>,
      <<"update", "update_1212", "lock", "update_1213">>,
      <<"update", "update_1213", "unlock", "update_1194">>,
      <<"update", "update_1194", "return", "idle">> }

\* sound_al_init, lines 169-282, but for lines 179 and 195, which are steps
\* of their own below: the device fails (to snderr_dev, line 276),
\* the context cannot be made current (to snderr_act, line 271), or the
\* call goes through to line 258.
LockPath_init ==
    { <<"init", "init_180", "lock", "init_186">>,
      <<"init", "init_186", "jump", "init_276">>,
      <<"init", "init_186", "jump", "init_194">>,
      <<"init", "init_205", "jump", "init_271">>,
      <<"init", "init_205", "unlock", "init_266">>,
      <<"init", "init_266", "return", "idle">>,
      <<"init", "init_271", "jump", "init_273">>,
      <<"init", "init_273", "jump", "init_276">>,
      <<"init", "init_276", "unlock", "init_279">>,
      <<"init", "init_281", "return", "idle">> }

\* sound_al_exit, lines 288-334, but for line 333.
LockPath_exit ==
    { <<"exit", "exit_292", "lock", "exit_293">>,
      <<"exit", "exit_293", "unlock", "exit_333">>,
      <<"exit", "exit_334", "return", "idle">> }

LockPaths ==
    LockPath_free \cup LockPath_loadWav \cup LockPath_loadOgg
    \cup LockPath_load \cup LockPath_playVoice \cup LockPath_updateVoice
    \cup LockPath_stop \cup LockPath_pause \cup LockPath_resume
    \cup LockPath_updateListener \cup LockPath_playGroup
    \cup LockPath_pauseGroup \cup LockPath_resumeGroup \cup LockPath_update
    \cup LockPath_init \cup LockPath_exit

\* Thread t stands in the function fn.
Inside(t, fn) ==
    /\ ~At(t, "idle")
    /\ \E e \in LockPaths : e[1] = fn /\ thr[t].pc \in {e[2], e[4]}

AllIdle == \A t \in Threads : At(t, "idle")

\* Thread t enters a call. A call other than init and exit is made between
\* an init that returned 0 and the exit.
PathCall(t) ==
    /\ At(t, "idle")
    /\ sound_mutex = "created"
    /\ \A u \in Threads : ~Inside(u, "init") /\ ~Inside(u, "exit")
    /\ \E e \in LockPaths :
          /\ e[2] = "idle"
          /\ thr' = Goto(t, e[4])
    /\ UNCHANGED <<poolVars, svolume, hostVars, al_groups, al_groupidgen,
                   voices, al, ticks, sound_lock, op>>

\* soundLock(): SDL_mutexP waits for the mutex; on a NULL mutex it returns
\* an error at once.
PathLock(t) ==
    /\ \E e \in LockPaths :
          /\ e[3] = "lock"
          /\ At(t, e[2])
          /\ thr' = Goto(t, e[4])
    /\ IF sound_mutex = "NULL"
       THEN UNCHANGED sound_lock
       ELSE sound_lock = 0 /\ sound_lock' = t
    /\ UNCHANGED <<poolVars, svolume, hostVars, al_groups, al_groupidgen,
                   voices, al, ticks, op>>

\* soundUnlock(): SDL_mutexV gives up the mutex that the thread holds.
PathUnlock(t) ==
    /\ \E e \in LockPaths :
          /\ e[3] = "unlock"
          /\ At(t, e[2])
          /\ thr' = Goto(t, e[4])
    /\ sound_lock' = IF sound_lock = t THEN 0 ELSE sound_lock
    /\ UNCHANGED <<poolVars, svolume, hostVars, al_groups, al_groupidgen,
                   voices, al, ticks, op>>

PathJump(t) ==
    /\ \E e \in LockPaths :
          /\ e[3] = "jump"
          /\ At(t, e[2])
          /\ thr' = Goto(t, e[4])
    /\ UNCHANGED <<poolVars, svolume, hostVars, al_groups, al_groupidgen,
                   voices, al, ticks, sound_lock, op>>

\* The call returns; the record notes the function and the thread.
PathReturn(t) ==
    /\ \E e \in LockPaths :
          /\ e[3] = "return"
          /\ At(t, e[2])
          /\ thr' = Goto(t, "idle")
          /\ op' = OpRec(e[1], t, 0, FALSE)
    /\ UNCHANGED <<poolVars, svolume, hostVars, al_groups, al_groupidgen,
                   voices, al, ticks, sound_lock>>

\* Thread t enters sound_al_init, before any other call.
InitEnter(t) ==
    /\ AllIdle
    /\ sound_mutex = "NULL"
    /\ thr' = Goto(t, "init_179")
    /\ UNCHANGED <<poolVars, svolume, hostVars, al_groups, al_groupidgen,
                   voices, al, ticks, sound_lock, op>>

\* Line 179: SDL_CreateMutex gives a mutex, or NULL.
InitCreateMutex(t, lockOk) ==
    /\ At(t, "init_179")
    /\ sound_mutex' = IF lockOk THEN "created" ELSE "NULL"
    /\ thr' = Goto(t, "init_180")
    /\ UNCHANGED <<poolVars, svolume, al_device, al_context, alc, wavVars,
                   al_groups, al_groupidgen, voices, al, ticks, sound_lock,
                   op>>

\* Lines 194-199: the test of sound_lock sends the call to snderr_ctx.
InitContextCheck(t) ==
    /\ At(t, "init_194")
    /\ \E ctxOk \in BOOLEAN :
          thr' = Goto(t, IF ContextCheck(sound_mutex = "created", ctxOk)
                         THEN "init_273" ELSE "init_205")
    /\ UNCHANGED <<poolVars, svolume, hostVars, al_groups, al_groupidgen,
                   voices, al, ticks, sound_lock, op>>

\* Lines 279-280: the error exit of init destroys the mutex and sets
\* sound_lock to NULL.
InitDestroyMutex(t) ==
    /\ At(t, "init_279")
    /\ sound_mutex' = "NULL"
    /\ thr' = Goto(t, "init_281")
    /\ UNCHANGED <<poolVars, svolume, al_device, al_context, alc, wavVars,
                   al_groups, al_groupidgen, voices, al, ticks, sound_lock,
                   op>>

\* Thread t enters sound_al_exit, when no other call is running.
ExitEnter(t) ==
    /\ AllIdle
    /\ sound_mutex = "created"
    /\ thr' = Goto(t, "exit_292")
    /\ UNCHANGED <<poolVars, svolume, hostVars, al_groups, al_groupidgen,
                   voices, al, ticks, sound_lock, op>>

\* Line 333: sound_al_exit destroys the mutex.
ExitDestroyMutex(t) ==
    /\ At(t, "exit_333")
    /\ sound_mutex' = "destroyed"
    /\ thr' = Goto(t, "exit_334")
    /\ UNCHANGED <<poolVars, svolume, al_device, al_context, alc, wavVars,
                   al_groups, al_groupidgen, voices, al, ticks, sound_lock,
                   op>>

NextLock ==
    \/ \E t \in Threads : InitEnter(t)
    \/ \E t \in Threads, lockOk \in BOOLEAN : InitCreateMutex(t, lockOk)
    \/ \E t \in Threads : InitContextCheck(t)
    \/ \E t \in Threads : InitDestroyMutex(t)
    \/ \E t \in Threads : ExitEnter(t)
    \/ \E t \in Threads : ExitDestroyMutex(t)
    \/ \E t \in Threads : PathCall(t)
    \/ \E t \in Threads : PathLock(t)
    \/ \E t \in Threads : PathUnlock(t)
    \/ \E t \in Threads : PathJump(t)
    \/ \E t \in Threads : PathReturn(t)

SpecLock == InitOff /\ [][NextLock]_vars

\* ------------------------------------------------------------ properties

\* The handles in the free pool, and those in general use.
FreeSet == {source_stack[j] : j \in 0..(source_nstack - 1)}

GeneralSet == {source_total[j] : j \in 0..(source_ntotal - 1)}

Members(g) == {g.sources[j] : j \in 0..(g.nsources - 1)}

\* The voices that hold a source, and the number of sources in groups.
VoiceOwned == {v \in DOMAIN voices : voices[v].source # 0}

RECURSIVE GroupOwnedFrom(_)
GroupOwnedFrom(i) ==
    IF i >= al_ngroups THEN 0
    ELSE al_groups[i].nsources + GroupOwnedFrom(i + 1)

GroupOwned == GroupOwnedFrom(0)

\* Everything but the record of the last operation.
stateVars == <<poolVars, svolume, hostVars, al_groups, al_groupidgen, voices,
               al, ticks, mtVars>>

\* C1: with a pool of P sources realized by init, the free sources, those
\* held by voices and those reserved by groups number P together, in every
\* state reached by whole calls of play, stop, sweep, createGroup,
\* playInGroup, stopGroup and update.
C1_SourcesConserved ==
    source_nstack + Cardinality(VoiceOwned) + GroupOwned = source_mstack

\* C2: a createGroup(N) called with fewer than N free sources returns 0 and
\* leaves the free count, the free pool, the general-use set and the group
\* list as they were.
C2_FailedCreateGroupAtomic ==
    [][(op'.name = "createGroup" /\ source_nstack < op'.arg)
          => /\ op'.ret = 0
             /\ source_nstack' = source_nstack
             /\ FreeSet' = FreeSet
             /\ source_ntotal' = source_ntotal
             /\ GeneralSet' = GeneralSet
             /\ al_groups' = al_groups]_vars

\* C3: no two voices hold the same non-zero source handle, however the
\* play, sweep and stop calls of the two threads interleave.
C3_NoSharedSource ==
    \A v \in DOMAIN voices : \A w \in DOMAIN voices :
        (v # w /\ voices[v].source # 0)
            => voices[v].source # voices[w].source

\* The lines that read or write the free stack, its count or a voice's
\* source handle.
PoolAccess ==
    {"getSource_733", "getSource_737_load", "getSource_737_store",
     "getSource_738", "updateVoice_845", "updateVoice_853",
     "updateVoice_865", "updateVoice_866_load", "updateVoice_866_store",
     "updateVoice_867", "stop_893"}

C6_SweepReleasesStopped ==
    [][(op'.name = "updateVoice" /\ voices[op'.arg].source # 0)
          => LET v == op'.arg
                 s == voices[v].source
             IN  IF al[s].state = AL_STOPPED
                 THEN /\ al'[s].buffer = AL_NONE
                      /\ source_nstack' = source_nstack + 1
                      /\ source_stack'[source_nstack] = s
                      /\ FreeSet' = FreeSet \cup {s}
                      /\ s \notin FreeSet
                      /\ voices'[v].source = 0
                      /\ voices'[v].state = VOICE_STOPPED
                 ELSE /\ voices'[v].source = s
                      /\ source_nstack' = source_nstack
                      /\ source_stack' = source_stack]_vars

\* A sweep has just given the source of a voice back to the pool.
C6_Witness ==
    /\ op.name = "updateVoice"
    /\ op.flag
    /\ voices[op.arg].source = 0
    /\ voices[op.arg].state = VOICE_STOPPED
    /\ source_nstack > 0
    /\ al[source_stack[source_nstack - 1]].buffer = AL_NONE

\* C7: a stop leaves the voice halted, and a stop on a voice that is
\* halted already (no source, or a source that has stopped) changes
\* nothing: no voice, no source, no pool state.
C7_StopIdempotent ==
    [][op'.name = "stop"
          => /\ \/ voices'[op'.arg].source = 0
                \/ al'[voices'[op'.arg].source].state = AL_STOPPED
             /\ Halted(op'.arg) => stateVars' = stateVars]_vars

\* A stop has just been called on a voice whose source had stopped before.
C7_Witness ==
    /\ op.name = "stop"
    /\ op.flag
    /\ voices[op.arg].source # 0
    /\ al[voices[op.arg].source].state = AL_STOPPED
    /\ al[voices[op.arg].source].buffer # AL_NONE

\* C8: play, stop and updatePos never raise the free count nor clear a
\* voice's handle, and a voice keeps its source, out of the free pool,
\* through every step that is not the sweep of that very voice.
C8_OnlySweepFrees ==
    [][/\ op'.name \in {"play", "stop", "updatePos"}
            => /\ source_nstack' <= source_nstack
               /\ \A v \in VoiceOwned :
                     voices'[v].source = voices[v].source
       /\ \A v \in VoiceOwned :
            ~(op'.name = "updateVoice" /\ op'.arg = v)
               => /\ voices'[v].source = voices[v].source
                  /\ voices[v].source \notin FreeSet']_vars

\* A stop has just halted a playing voice, which still holds its source.
C8_Witness ==
    /\ op.name = "stop"
    /\ ~op.flag
    /\ voices[op.arg].source # 0
    /\ al[voices[op.arg].source].state = AL_STOPPED
    /\ voices[op.arg].source \notin FreeSet

\* The sources of every group are apart from everything else: not free,
\* not in general use, held by no voice, in no other group.
C9_Apart ==
    \A i \in DOMAIN al_groups :
        /\ Cardinality(Members(al_groups[i])) = al_groups[i].nsources
        /\ \A m \in Members(al_groups[i]) :
              /\ m \notin FreeSet
              /\ m \notin GeneralSet
              /\ \A v \in DOMAIN voices : voices[v].source # m
              /\ \A k \in DOMAIN al_groups :
                    k # i => m \notin Members(al_groups[k])

\* A createGroup(size) that succeeds takes exactly size sources out of the
\* free pool and out of the general-use set, into the new group.
C9_Take ==
    (op'.name = "createGroup" /\ op'.ret # 0)
        => LET g == al_groups'[al_ngroups]
           IN  /\ al_ngroups' = al_ngroups + 1
               /\ g.id = op'.ret
               /\ g.nsources = op'.arg
               /\ Cardinality(Members(g)) = op'.arg
               /\ Members(g) \subseteq FreeSet
               /\ source_nstack' = source_nstack - op'.arg
               /\ FreeSet' = FreeSet \ Members(g)
               /\ source_ntotal' = source_ntotal - op'.arg
               /\ GeneralSet' = GeneralSet \ Members(g)

\* C9: a successful createGroup(size) removes exactly size sources from the
\* free pool and the general-use set, and from then on no voice is handed
\* one of them and no other group holds it.
C9_GroupReserves == [][C9_Take]_vars /\ []C9_Apart

\* A play has just succeeded while a group holds a source.
C9_Witness ==
    /\ op.name = "play"
    /\ op.ret = 0
    /\ voices[op.arg].source # 0
    /\ \E i \in DOMAIN al_groups : al_groups[i].nsources >= 1

C11_LiveGroupPlays ==
    [][\A group \in GroupIds, snd \in Buffers, once \in BOOLEAN :
         LET i == GroupIndex(group)
         IN  (sound_al_playGroup(group, snd, once) /\ i < al_ngroups)
                => /\ op'.ret = 0
                   /\ \E s \in Members(al_groups[i]) :
                         /\ al'[s].state = AL_PLAYING
                         /\ al'[s].buffer = snd]_vars

\* C12: stopGroup on the id of a group that exists, at whatever index of
\* al_groups, puts that group in VOICE_FADEOUT with the current time as its
\* fade_timer, changes the playback state of no source and leaves every
\* other group as it was.
C12_StopGroupFades ==
    [][\A group \in GroupIds :
         LET i == GroupIndex(group)
         IN  (sound_al_stopGroup(group) /\ i < al_ngroups)
                => /\ al_groups'[i].state = VOICE_FADEOUT
                   /\ al_groups'[i].fade_timer = ticks
                   /\ \A s \in DOMAIN al : al'[s].state = al[s].state
                   /\ \A k \in DOMAIN al_groups :
                         k # i => al_groups'[k] = al_groups[k]]_vars

\* What the update that ends a fade leaves of group i: every member halted,
\* without buffer, at the full global volume, and the group playing again.
C13_Ended(i) ==
    /\ al_groups'[i].state = VOICE_PLAYING
    /\ \A s \in Members(al_groups[i]) :
          /\ al'[s].state \notin {AL_PLAYING, AL_PAUSED}
          /\ al'[s].buffer = AL_NONE
          /\ al'[s].gain = FullGain(svolume)

\* The gain an update gives member s of group g is above the gain any later
\* update of the same fade would give it.
C13_Decreasing(g, s) ==
    \A t2 \in (ticks + 1)..(g.fade_timer + SOUND_FADEOUT - 1) :
        FadeGroup(al', g, t2)[s].gain < al'[s].gain

\* C13 as stated: for a group in VOICE_FADEOUT since T0, an update at t
\* with T0 <= t < T0 + SOUND_FADEOUT gives each member a gain that strictly
\* decreases as t grows, and an update at t >= T0 + SOUND_FADEOUT halts
\* every member, detaches its buffer, restores the full global volume and
\* returns the group to VOICE_PLAYING.
C13_FadeDecreases ==
    [][sound_al_update =>
         \A i \in DOMAIN al_groups :
            LET g == al_groups[i]
            IN  g.state = VOICE_FADEOUT =>
                   IF ticks - g.fade_timer < SOUND_FADEOUT
                   THEN \A s \in Members(g) : C13_Decreasing(g, s)
                   ELSE C13_Ended(i)]_vars

\* C13, amended: within the fade the gain given to each member is the
\* global volume scaled by the share of the fade still to run, which
\* strictly decreases with t while the volume is above zero (at volume zero
\* it is zero throughout) and the group stays in VOICE_FADEOUT; from
\* T0 + SOUND_FADEOUT on, the update ends the fade as stated.
C13_FadeLinear ==
    [][sound_al_update =>
         \A i \in DOMAIN al_groups :
            LET g == al_groups[i]
                f == ticks - g.fade_timer
            IN  g.state = VOICE_FADEOUT =>
                   IF f < SOUND_FADEOUT
                   THEN /\ al_groups'[i] = g
                        /\ \A s \in Members(g) :
                              /\ al'[s].gain * SOUND_FADEOUT
                                    = FullGain(svolume) * (SOUND_FADEOUT - f)
                              /\ al'[s].state = al[s].state
                              /\ svolume > 0 => C13_Decreasing(g, s)
                   ELSE C13_Ended(i)]_vars

\* An update has just lowered the gain of a playing member of a group that
\* is part of the way through its fade, at a volume above zero.
C13_Witness ==
    /\ op.name = "update"
    /\ svolume > 0
    /\ \E i \in DOMAIN al_groups :
          LET g == al_groups[i]
              f == ticks - g.fade_timer
          IN  /\ g.state = VOICE_FADEOUT
              /\ f > 0
              /\ f < SOUND_FADEOUT
              /\ \E s \in Members(g) :
                    /\ al[s].state = AL_PLAYING
                    /\ al[s].gain * SOUND_FADEOUT
                          = FullGain(svolume) * (SOUND_FADEOUT - f)

\* C14: a group is in VOICE_PLAYING or VOICE_FADEOUT; it goes from playing
\* to fading only by stopGroup, and from fading to playing only by an
\* update at or after the end of its fade: not by playInGroup, pauseGroup,
\* resumeGroup or an earlier update.
C14_GroupStateMachine ==
    [][\A i \in DOMAIN al_groups :
         LET g == al_groups[i]
             h == al_groups'[i]
         IN  /\ h.state \in {VOICE_PLAYING, VOICE_FADEOUT}
             /\ (g.state = VOICE_PLAYING /\ h.state = VOICE_FADEOUT)
                   => op'.name = "stopGroup"
             /\ (g.state = VOICE_FADEOUT /\ h.state # VOICE_FADEOUT)
                   => /\ op'.name = "update"
                      /\ ticks - g.fade_timer >= SOUND_FADEOUT]_vars

\* C15: after pause-all no source of the device is playing, be it free,
\* held by a voice or a member of a group, and after resume-all no source
\* is paused.
C15_PauseAllSources ==
    /\ op.name = "pause" => \A s \in DOMAIN al : al[s].state # AL_PLAYING
    /\ op.name = "resume" => \A s \in DOMAIN al : al[s].state # AL_PAUSED

\* C16: pauseGroup on a group that exists turns its playing members to
\* paused, and resumeGroup its paused members to playing, and that is all
\* they change: members in another state, sources outside the group, the
\* groups' states and fade timers stay as they were, so that a pauseGroup
\* on a group with no playing member changes nothing.
C16_GroupPauseExact ==
    [][\A group \in GroupIds :
         LET i == GroupIndex(group)
         IN  /\ (sound_al_pauseGroup(group) /\ i < al_ngroups)
                   => /\ \A s \in DOMAIN al :
                            al'[s] =
                               IF /\ s \in Members(al_groups[i])
                                  /\ al[s].state = AL_PLAYING
                               THEN [al[s] EXCEPT !.state = AL_PAUSED]
                               ELSE al[s]
                      /\ UNCHANGED <<al_groups, poolVars, voices, svolume>>
             /\ (sound_al_resumeGroup(group) /\ i < al_ngroups)
                   => /\ \A s \in DOMAIN al :
                            al'[s] =
                               IF /\ s \in Members(al_groups[i])
                                  /\ al[s].state = AL_PAUSED
                               THEN [al[s] EXCEPT !.state = AL_PLAYING]
                               ELSE al[s]
                      /\ UNCHANGED <<al_groups, poolVars, voices, svolume>>
             /\ (sound_al_pauseGroup(group) \/ sound_al_resumeGroup(group))
                   => DOMAIN al' = DOMAIN al]_vars

\* A resumeGroup has just set the paused member of a fading group playing
\* again while another member of the group stays stopped with its buffer.
C16_Witness ==
    /\ op.name = "resumeGroup"
    /\ op.flag
    /\ \E i \in DOMAIN al_groups :
          /\ al_groups[i].state = VOICE_FADEOUT
          /\ \E s \in Members(al_groups[i]) : al[s].state = AL_PLAYING
          /\ \E s \in Members(al_groups[i]) :
                al[s].state = AL_STOPPED /\ al[s].buffer # AL_NONE

\* No device, no context, no mutex and no source is left, in the program
\* or in the library.
C17_Disabled ==
    /\ sound_mutex # "created"
    /\ al_device = 0
    /\ al_context = 0
    /\ ~alc.device
    /\ ~alc.context
    /\ DOMAIN al = {}
    /\ source_nstack = 0
    /\ source_ntotal = 0

\* C17: an init during which the device could not be opened or the context
\* could not be created returns a status other than 0 and leaves the
\* subsystem disabled.
C17_InitFailureDisables ==
    (op.name = "init" /\ op.flag) => (op.ret # 0 /\ C17_Disabled)

\* C18: after exit no source that init created is left, whether it was
\* free, held by a voice or reserved by a group, and the group list and
\* both source arrays are empty.
C18_ExitDeletesAll ==
    op.name = "exit"
        => /\ DOMAIN al = {}
           /\ al_groups = <<>>
           /\ source_stack = <<>>
           /\ source_total = <<>>

\* The containers with a compression code other than 1.
C19_Compressed == {MakeWav(h) : h \in {x \in WavHeaders : x.compressed # 1}}

\* C19: a load of a container whose compression code is not 1 returns the
\* load error, leaves the buffers of the device as they were and leaves the
\* buffer handle of the sound as it was.
C19_CompressedRejected ==
    [][(op'.name = "loadWav" /\ op'.arg \in C19_Compressed)
         => /\ op'.ret = -1
            /\ proc' = "running"
            /\ albuffers' = albuffers
            /\ snd_buf' = snd_buf]_vars

\* A container with compression code 2 was refused while the sound still
\* held the handle of an earlier load.
C19_Witness ==
    /\ op.name = "loadWav"
    /\ op.arg \in C19_Compressed
    /\ Slice(op.arg, 20, 2) = LE16(2)
    /\ op.ret = -1
    /\ snd_buf # 0

\* The headers of containers that are whole and not compressed.
C20_Plain == {h \in WavHeaders : h.compressed = 1 /\ h.short = 0}

\* C20: a load of a whole container returns, with success exactly when
\* its header has 1 or 2 channels and 8 or 16 bits per sample, and with no
\* buffer made otherwise.
C20_SupportedExactly ==
    \A h \in C20_Plain :
        (op.name = "loadWav" /\ op.arg = MakeWav(h))
          => /\ proc = "running"
             /\ op.ret = 0 <=> (h.channels \in {1, 2} /\ h.bits \in {8, 16})
             /\ op.ret # 0 => albuffers = <<>>

\* The headers of whole containers of a supported kind.
C21_WellFormed ==
    {h \in C20_Plain : h.channels \in {1, 2} /\ h.bits \in {8, 16}}

\* The device format that stands for a channel count and a bit depth.
C21_Format(channels, bits) ==
    IF channels = 2
    THEN IF bits = 16 THEN "AL_FORMAT_STEREO16" ELSE "AL_FORMAT_STEREO8"
    ELSE IF bits = 16 THEN "AL_FORMAT_MONO16" ELSE "AL_FORMAT_MONO8"

\* C21: the buffer that a load of a well-formed container makes has the
\* format of the header's channel count and bit depth, the header's sample
\* rate, and as many bytes as the data chunk declares.
C21_BufferAsHeader ==
    \A h \in C21_WellFormed :
        (op.name = "loadWav" /\ op.arg = MakeWav(h) /\ op.ret = 0)
          => /\ snd_buf \in DOMAIN albuffers
             /\ albuffers[snd_buf].format = C21_Format(h.channels, h.bits)
             /\ albuffers[snd_buf].rate = h.rate
             /\ albuffers[snd_buf].size = h.datalen

\* The headers of containers whose payload ends before the length that
\* the data chunk declares.
C22_Short ==
    {h \in WavHeaders : h.compressed = 1 /\ h.channels # 0 /\ h.short > 0}

\* C22: a load of a container whose stream ends before the declared length
\* of the payload returns, and returns the load error.
C22_PayloadReadEnds ==
    \A h \in C22_Short :
        (op.name = "loadWav" /\ op.arg = MakeWav(h))
          => (proc = "running" /\ op.ret = -1)

\* C23: updatePos writes its coordinates to the cache of the voice and
\* leaves every source as it was; the cache of a voice changes in no other
\* step than an updatePos or a play of that voice; the position and the
\* velocity of the source of a voice change in no other step than the sweep
\* of that voice; and the sweep of a voice whose source has not stopped
\* makes the position and velocity of the source those of the cache.
C23_PosAppliedOnSweep ==
    [][\A v \in DOMAIN voices :
          LET s == voices[v].source
              swept == op'.name = "updateVoice" /\ op'.arg = v
          IN  /\ \A c \in 1..MaxCoord :
                    sound_al_updatePos(v, c, 0 - c, 2 * c, 0 - 2 * c)
                      => /\ voices'[v].pos = <<c, 0 - c>>
                         /\ voices'[v].vel = <<2 * c, 0 - 2 * c>>
                         /\ al' = al
              /\ ~(op'.name \in {"updatePos", "play"} /\ op'.arg = v)
                    => /\ voices'[v].pos = voices[v].pos
                       /\ voices'[v].vel = voices[v].vel
              /\ (s # 0 /\ ~swept)
                    => /\ al'[s].pos = al[s].pos
                       /\ al'[s].vel = al[s].vel
              /\ (s # 0 /\ swept /\ al[s].state # AL_STOPPED)
                    => /\ al'[s].pos = voices[v].pos
                       /\ al'[s].vel = voices[v].vel]_vars

\* A sweep has just written coordinates to a source that an updatePos had
\* put in the cache of its voice after the play.
C23_Witness ==
    /\ op.name = "updateVoice"
    /\ ~op.flag
    /\ voices[op.arg].source # 0
    /\ voices[op.arg].pos # <<0, 0>>
    /\ al[voices[op.arg].source].pos = voices[op.arg].pos
    /\ al[voices[op.arg].source].vel = voices[op.arg].vel
    /\ al[voices[op.arg].source].state = AL_PLAYING

\* The pool is exhausted and a voice holds a source that has stopped.
C24_Exhausted ==
    /\ source_nstack = 0
    /\ \E v \in DOMAIN voices :
          /\ voices[v].source # 0
          /\ al[voices[v].source].state = AL_STOPPED

\* A play has just taken a source and started it.
C24_Played ==
    /\ op.name = "play"
    /\ op.ret = 0
    /\ voices[op.arg].source # 0
    /\ al[voices[op.arg].source].state = AL_PLAYING

C25_GroupPlaysFullGain ==
    [][\A group \in GroupIds, snd \in Buffers, once \in BOOLEAN :
          LET i == GroupIndex(group)
              g == al_groups[i]
              j == PickMember(g)
          IN  (i < al_ngroups /\ j < g.nsources
                 /\ sound_al_playGroup(group, snd, once))
                => /\ al'[g.sources[j]].state = AL_PLAYING
                   /\ al'[g.sources[j]].gain = FullGain(svolume)]_vars

\* C26: the free count is at least 0 and at most the number of general-use
\* sources, which is at most the capacity of the free stack; and whenever a
\* voice holds a source, the entry of the free stack at the free count,
\* where the sweep of that voice would write, is inside the stack.
C26_PoolBounds ==
    /\ 0 <= source_nstack
    /\ source_nstack <= source_ntotal
    /\ source_ntotal <= source_mstack
    /\ DOMAIN source_stack = 0..(source_mstack - 1)
    /\ \A v \in DOMAIN voices :
          voices[v].source # 0 => source_nstack \in DOMAIN source_stack

\* A sweep has just written the source of a voice at the top of the free
\* stack, after a createGroup had failed and with a group in place, and
\* every general-use source is free again.
C26_Witness ==
    /\ op.name = "updateVoice"
    /\ op.flag
    /\ al_groupidgen > al_ngroups
    /\ al_ngroups > 0
    /\ source_nstack = source_ntotal
    /\ source_nstack > 0

\* C27: a thread that is in no call does not hold the sound lock, whatever
\* the call it returned from and whatever the path it took through it.
C27_LockBalanced ==
    \A t \in Threads : At(t, "idle") => sound_lock # t

\* A thread has returned from playGroup, and the other thread has taken the
\* lock since.
C27_Witness ==
    /\ op.name = "playGroup"
    /\ At(op.arg, "idle")
    /\ \E u \in Threads \ {op.arg} : sound_lock = u /\ ~At(u, "idle")

====
